---- MODULE Spec2Model ----
(***************************************************************************)
(* A1JS: a sparse table addressed by spreadsheet cell references, with its *)
(* reference codec (utils.ts), its CSV writer and tokenizer (utils.ts) and *)
(* the table class (A1.ts).                                                *)
(*                                                                         *)
(* A JavaScript string is a sequence of characters; a character is a       *)
(* one-element atom such as "A" or "7".  The line feed, carriage return    *)
(* and double quote are the atoms LF, CR and QUOTE.                        *)
(***************************************************************************)
EXTENDS Integers, Sequences, FiniteSets, TLC

VARIABLES data, last, pc, input, output

vars == <<data, last, pc, input, output>>

(***************************************************************************)
(* Characters                                                              *)
(***************************************************************************)
Upper == <<"A", "B", "C", "D", "E", "F", "G", "H", "I", "J", "K", "L", "M",
           "N", "O", "P", "Q", "R", "S", "T", "U", "V", "W", "X", "Y", "Z">>

Lower == <<"a", "b", "c", "d", "e", "f", "g", "h", "i", "j", "k", "l", "m",
           "n", "o", "p", "q", "r", "s", "t", "u", "v", "w", "x", "y", "z">>

Digits == <<"0", "1", "2", "3", "4", "5", "6", "7", "8", "9">>

LF == "LF"

CR == "CR"

QUOTE == "QUOTE"

IsUpper(c) == \E i \in 1..26 : Upper[i] = c

IsLower(c) == \E i \in 1..26 : Lower[i] = c

IsDigit(c) == \E i \in 1..10 : Digits[i] = c

DigitValue(c) == (CHOOSE i \in 1..10 : Digits[i] = c) - 1

\* String.prototype.charCodeAt for the characters of the model (ASCII).
CharCode(c) ==
    IF IsUpper(c) THEN 64 + (CHOOSE i \in 1..26 : Upper[i] = c)
    ELSE IF IsLower(c) THEN 96 + (CHOOSE i \in 1..26 : Lower[i] = c)
    ELSE IF IsDigit(c) THEN 48 + DigitValue(c)
    ELSE IF c = LF THEN 10
    ELSE IF c = CR THEN 13
    ELSE IF c = " " THEN 32
    ELSE IF c = QUOTE THEN 34
    ELSE IF c = "+" THEN 43
    ELSE IF c = "," THEN 44
    ELSE IF c = "-" THEN 45
    ELSE IF c = "." THEN 46
    ELSE IF c = ";" THEN 59
    ELSE 64

\* String(n) of an integer n below 1e21: its decimal digits, "-" first when
\* n is negative.
RECURSIVE NatToString(_)
NatToString(n) ==
    IF n < 10 THEN <<Digits[n + 1]>>
    ELSE NatToString(n \div 10) \o <<Digits[(n % 10) + 1]>>

IntToString(n) == IF n < 0 THEN <<"-">> \o NatToString(0 - n) ELSE NatToString(n)

\* parseInt(s, 10) of a string of decimal digits.
ParseIntDigits(s) ==
    LET acc[i \in 0..Len(s)] ==
            IF i = 0 THEN 0 ELSE acc[i - 1] * 10 + DigitValue(s[i])
    IN  acc[Len(s)]

(***************************************************************************)
(* Reference codec (utils.ts)                                              *)
(***************************************************************************)
columnLetterToNumber(letter) ==
    LET result[i \in 0..Len(letter)] ==
            IF i = 0 THEN 0
            ELSE result[i - 1] * 26 + (CharCode(letter[i]) - CharCode("A") + 1)
    IN  result[Len(letter)]

RECURSIVE columnNumberToLetterLoop(_, _)
columnNumberToLetterLoop(num, result) ==
    IF num > 0
    THEN LET n == num - 1
         IN  columnNumberToLetterLoop(n \div 26, <<Upper[(n % 26) + 1]>> \o result)
    ELSE result

\* Ordinary base 26 (the decrement forgotten): 26 has no letter.
RECURSIVE columnNumberToLetterNoDecrement(_)
columnNumberToLetterNoDecrement(num) ==
    IF num > 0
    THEN columnNumberToLetterNoDecrement(num \div 26) \o <<Upper[(num % 26) + 1]>>
    ELSE <<>>

columnNumberToLetter(num) == columnNumberToLetterLoop(num, <<>>)

\* cellRef.match(/^([A-Z]+)(\d+)$/): the number of leading capital letters when
\* the whole string is one or more capitals then one or more digits, else 0
\* (no match).  [A-Z]+ is greedy and no digit is a capital, so the split is
\* where the leading run of capitals ends.
RECURSIVE LeadingUpper(_, _)
LeadingUpper(s, i) ==
    IF i <= Len(s) /\ IsUpper(s[i]) THEN LeadingUpper(s, i + 1) ELSE i - 1

MatchCellRef(cellRef) ==
    LET k == LeadingUpper(cellRef, 1)
    IN  IF k >= 1 /\ k < Len(cellRef)
           /\ \A j \in (k + 1)..Len(cellRef) : IsDigit(cellRef[j])
        THEN k
        ELSE 0

Thrown(text, param) == [ok |-> FALSE, msg |-> <<text, param>>]

\* The row check forgotten: row 0 is accepted.
parseCellReferenceNoRowCheck(cellRef) ==
    LET k == MatchCellRef(cellRef)
    IN  IF k = 0 THEN Thrown("Invalid cell reference: ", cellRef)
        ELSE [ok |-> TRUE,
              row |-> ParseIntDigits(SubSeq(cellRef, k + 1, Len(cellRef))),
              column |-> columnLetterToNumber(SubSeq(cellRef, 1, k))]

parseCellReference(cellRef) ==
    LET k == MatchCellRef(cellRef)
    IN  IF k = 0 THEN Thrown("Invalid cell reference: ", cellRef)
        ELSE LET columnStr == SubSeq(cellRef, 1, k)
                 rowStr == SubSeq(cellRef, k + 1, Len(cellRef))
                 column == columnLetterToNumber(columnStr)
                 row == ParseIntDigits(rowStr)
             IN  IF row < 1
                 THEN Thrown("Invalid row number: ", IntToString(row))
                 ELSE [ok |-> TRUE, row |-> row, column |-> column]

\* Only the row checked.
positionToCellReferenceRowOnly(position) ==
    IF position.row < 1
    THEN Thrown("Row and column numbers must be >= 1", <<>>)
    ELSE [ok |-> TRUE,
          ref |-> columnNumberToLetter(position.column) \o IntToString(position.row)]

positionToCellReference(position) ==
    IF position.row < 1 \/ position.column < 1
    THEN Thrown("Row and column numbers must be >= 1", <<>>)
    ELSE [ok |-> TRUE,
          ref |-> columnNumberToLetter(position.column) \o IntToString(position.row)]

isValidCellReference(cellRef) == parseCellReference(cellRef).ok

(***************************************************************************)
(* Cell values (CellData's unknown): undefined, null, booleans, strings    *)
(* and decimal numbers.  A number is its sign, its integer part and the    *)
(* digits after the point without trailing zeros.                          *)
(***************************************************************************)
Undefined == [t |-> "undefined"]

Null == [t |-> "null"]

Bool(b) == [t |-> "boolean", b |-> b]

Str(s) == [t |-> "string", s |-> s]

Num(neg, int, frac) == [t |-> "number", neg |-> neg, int |-> int, frac |-> frac]

IntNum(n) == Num(n < 0, IF n < 0 THEN 0 - n ELSE n, <<>>)

\* String(value) for a value that is neither null nor undefined.
JsString(value) ==
    IF value.t = "string" THEN value.s
    ELSE IF value.t = "boolean"
    THEN (IF value.b THEN <<"t", "r", "u", "e">> ELSE <<"f", "a", "l", "s", "e">>)
    ELSE (IF value.neg /\ (value.int # 0 \/ value.frac # <<>>) THEN <<"-">> ELSE <<>>)
         \o NatToString(value.int)
         \o (IF value.frac # <<>> THEN <<".">> \o value.frac ELSE <<>>)

Includes(str, c) == \E i \in 1..Len(str) : str[i] = c

\* str.replace(/"/g, '""')
RECURSIVE DoubleQuotes(_)
DoubleQuotes(str) ==
    IF str = <<>> THEN <<>>
    ELSE (IF Head(str) = QUOTE THEN <<QUOTE, QUOTE>> ELSE <<Head(str)>>)
         \o DoubleQuotes(Tail(str))

escapeCsvValue(value) ==
    IF value = Null \/ value = Undefined THEN <<>>
    ELSE LET str == JsString(value)
         IN  IF Includes(str, ",") \/ Includes(str, QUOTE)
                \/ Includes(str, LF) \/ Includes(str, CR)
             THEN <<QUOTE>> \o DoubleQuotes(str) \o <<QUOTE>>
             ELSE str

(***************************************************************************)
(* CSV tokenizer (utils.ts)                                                *)
(***************************************************************************)
\* White space as String.prototype.trim sees it, among the model's characters.
IsSpace(c) == c \in {" ", LF, CR}

RECURSIVE TrimStart(_)
TrimStart(s) == IF s # <<>> /\ IsSpace(Head(s)) THEN TrimStart(Tail(s)) ELSE s

RECURSIVE TrimEnd(_)
TrimEnd(s) ==
    IF s # <<>> /\ IsSpace(s[Len(s)]) THEN TrimEnd(SubSeq(s, 1, Len(s) - 1)) ELSE s

Trim(s) == TrimEnd(TrimStart(s))

\* A split on "\n" alone: the CR before it stays in the line.
RECURSIVE SplitLinesLFOnly(_, _, _)
SplitLinesLFOnly(s, i, line) ==
    IF i > Len(s) THEN <<line>>
    ELSE IF s[i] = LF
    THEN <<line>> \o SplitLinesLFOnly(s, i + 1, <<>>)
    ELSE SplitLinesLFOnly(s, i + 1, Append(line, s[i]))

\* csvString.split(/\r?\n/): a CR directly before an LF belongs to the break.
RECURSIVE SplitLines(_, _, _)
SplitLines(s, i, line) ==
    IF i > Len(s) THEN <<line>>
    ELSE IF s[i] = CR /\ i + 1 <= Len(s) /\ s[i + 1] = LF
    THEN <<line>> \o SplitLines(s, i + 2, <<>>)
    ELSE IF s[i] = LF
    THEN <<line>> \o SplitLines(s, i + 1, <<>>)
    ELSE SplitLines(s, i + 1, Append(line, s[i]))

\* The state of parseCsvLine at its first pass through the loop.
LineStart == [i |-> 1, current |-> <<>>, inQuotes |-> FALSE, result |-> <<>>]

\* One pass with a doubled quote read as an escaped quote outside quotes too.
parseCsvLineStepEscapeAnywhere(line, separator, st) ==
    LET char == line[st.i]
    IN  IF char = QUOTE
        THEN IF st.i + 1 <= Len(line) /\ line[st.i + 1] = QUOTE
             THEN [st EXCEPT !.current = Append(@, QUOTE), !.i = @ + 2]
             ELSE [st EXCEPT !.inQuotes = ~@, !.i = @ + 1]
        ELSE IF <<char>> = separator /\ ~st.inQuotes
        THEN [st EXCEPT !.result = Append(@, st.current), !.current = <<>>,
                        !.i = @ + 1]
        ELSE [st EXCEPT !.current = Append(@, char), !.i = @ + 1]

\* One pass through the while loop of parseCsvLine, at index st.i of line.
parseCsvLineStep(line, separator, st) ==
    LET char == line[st.i]
    IN  IF char = QUOTE
        THEN IF st.inQuotes /\ st.i + 1 <= Len(line) /\ line[st.i + 1] = QUOTE
             THEN [st EXCEPT !.current = Append(@, QUOTE), !.i = @ + 2]
             ELSE [st EXCEPT !.inQuotes = ~@, !.i = @ + 1]
        ELSE IF <<char>> = separator /\ ~st.inQuotes
        THEN [st EXCEPT !.result = Append(@, st.current), !.current = <<>>,
                        !.i = @ + 1]
        ELSE [st EXCEPT !.current = Append(@, char), !.i = @ + 1]

\* The last field pushed only when it has characters.
parseCsvLineEndNonEmpty(st) ==
    IF st.current = <<>> THEN st.result ELSE Append(st.result, st.current)

\* parseCsvLine after its loop: the last field is pushed.
parseCsvLineEnd(st) == Append(st.result, st.current)

RECURSIVE parseCsvLineLoop(_, _, _, _, _, _)
parseCsvLineLoop(line, separator, i, current, inQuotes, result) ==
    IF i > Len(line) THEN Append(result, current)
    ELSE LET char == line[i]
         IN  IF char = QUOTE
             THEN IF inQuotes /\ i + 1 <= Len(line) /\ line[i + 1] = QUOTE
                  THEN parseCsvLineLoop(line, separator, i + 2,
                                        Append(current, QUOTE), inQuotes, result)
                  ELSE parseCsvLineLoop(line, separator, i + 1,
                                        current, ~inQuotes, result)
             ELSE IF <<char>> = separator /\ ~inQuotes
             THEN parseCsvLineLoop(line, separator, i + 1,
                                   <<>>, inQuotes, Append(result, current))
             ELSE parseCsvLineLoop(line, separator, i + 1,
                                   Append(current, char), inQuotes, result)

parseCsvLine(line, separator) == parseCsvLineLoop(line, separator, 1, <<>>, FALSE, <<>>)

RECURSIVE parseCsvLines(_, _)
parseCsvLines(lines, separator) ==
    IF lines = <<>> THEN <<>>
    ELSE IF Trim(Head(lines)) = <<>>
    THEN parseCsvLines(Tail(lines), separator)
    ELSE <<parseCsvLine(Head(lines), separator)>>
         \o parseCsvLines(Tail(lines), separator)

parseCsvString(csvString, separator) ==
    IF Trim(csvString) = <<>> THEN <<>>
    ELSE parseCsvLines(SplitLines(csvString, 1, <<>>), separator)

(***************************************************************************)
(* Value coercion on import (utils.ts)                                     *)
(***************************************************************************)
RECURSIVE LeadingDigits(_, _)
LeadingDigits(s, i) ==
    IF i <= Len(s) /\ IsDigit(s[i]) THEN LeadingDigits(s, i + 1) ELSE i - 1

\* /^-?\d+\.?\d*$/.test(value): where the parts lie, or ok = FALSE.
MatchNumber(value) ==
    LET start == IF value # <<>> /\ value[1] = "-" THEN 2 ELSE 1
        intEnd == LeadingDigits(value, start)
        hasDot == intEnd + 1 <= Len(value) /\ value[intEnd + 1] = "."
        fracStart == IF hasDot THEN intEnd + 2 ELSE intEnd + 1
        fracEnd == LeadingDigits(value, fracStart)
    IN  [ok |-> intEnd >= start /\ fracEnd = Len(value),
         neg |-> start = 2,
         int |-> SubSeq(value, start, intEnd),
         frac |-> SubSeq(value, fracStart, fracEnd)]

RECURSIVE StripTrailingZeros(_)
StripTrailingZeros(s) ==
    IF s # <<>> /\ s[Len(s)] = "0"
    THEN StripTrailingZeros(SubSeq(s, 1, Len(s) - 1))
    ELSE s

ToLowerCase(s) ==
    [i \in 1..Len(s) |->
        IF IsUpper(s[i]) THEN Lower[CHOOSE k \in 1..26 : Upper[k] = s[i]] ELSE s[i]]

parseValue(value) ==
    IF value = <<>> THEN Null
    ELSE LET m == MatchNumber(value)
             lower == ToLowerCase(value)
         IN  IF m.ok
             THEN Num(m.neg, ParseIntDigits(m.int), StripTrailingZeros(m.frac))
             ELSE IF lower = <<"t", "r", "u", "e">> THEN Bool(TRUE)
             ELSE IF lower = <<"f", "a", "l", "s", "e">> THEN Bool(FALSE)
             ELSE Str(value)

(***************************************************************************)
(* JavaScript objects used as mappings: the own string keys in insertion   *)
(* order, each with its value.  No key of the model is an integer index,   *)
(* so insertion order is the enumeration order.                            *)
(***************************************************************************)
Entry(k, v) == [k |-> k, v |-> v]

Obj(entries) == [t |-> "object", o |-> entries]

ObjKeys(obj) == [i \in 1..Len(obj) |-> obj[i].k]

ObjHas(obj, k) == \E i \in 1..Len(obj) : obj[i].k = k

\* obj[k]
ObjGet(obj, k) ==
    IF ObjHas(obj, k) THEN obj[CHOOSE i \in 1..Len(obj) : obj[i].k = k].v
    ELSE Undefined

\* An overwritten key moved to the end.
ObjPutMoveToEnd(obj, k, v) ==
    LET keep(e) == e.k # k
    IN  Append(SelectSeq(obj, keep), Entry(k, v))

\* obj[k] = v
ObjPut(obj, k, v) ==
    IF ObjHas(obj, k)
    THEN [i \in 1..Len(obj) |-> IF obj[i].k = k THEN Entry(k, v) ELSE obj[i]]
    ELSE Append(obj, Entry(k, v))

\* delete obj[k]
ObjDelete(obj, k) ==
    LET keep(e) == e.k # k
    IN  SelectSeq(obj, keep)

\* Object.assign(target, source)
RECURSIVE ObjAssign(_, _)
ObjAssign(target, source) ==
    IF source = <<>> THEN target
    ELSE ObjAssign(ObjPut(target, Head(source).k, Head(source).v), Tail(source))

Truthy(value) ==
    IF value.t = "undefined" \/ value.t = "null" THEN FALSE
    ELSE IF value.t = "boolean" THEN value.b
    ELSE IF value.t = "string" THEN value.s # <<>>
    ELSE IF value.t = "number" THEN value.int # 0 \/ value.frac # <<>>
    ELSE TRUE

\* { ...value }: the own enumerable properties; a string spreads to its
\* characters under their indices, the other primitives to nothing.
Spread(value) ==
    IF value.t = "object" THEN value.o
    ELSE IF value.t = "string"
    THEN [i \in 1..Len(value.s) |-> Entry(NatToString(i - 1), Str(<<value.s[i]>>))]
    ELSE <<>>

(***************************************************************************)
(* The table class A1 (A1.ts).  A method is an operator from the table's   *)
(* data and its arguments to a Result: whether it returned or threw, the   *)
(* data it leaves, and the value returned or the message thrown.           *)
(***************************************************************************)
NoMsg == <<"", <<>>>>

Returned(obj, ret) == [ok |-> TRUE, data |-> obj, msg |-> NoMsg, ret |-> ret]

Threw(obj, msg) == [ok |-> FALSE, data |-> obj, msg |-> msg, ret |-> Undefined]

InvalidRef(cellRef) == <<"Invalid cell reference: ", cellRef>>

\* The first key, in order, that is no valid cell reference; 0 when all are.
FirstInvalid(keys) ==
    IF \A i \in 1..Len(keys) : isValidCellReference(keys[i]) THEN 0
    ELSE CHOOSE i \in 1..Len(keys) :
             /\ ~isValidCellReference(keys[i])
             /\ \A j \in 1..(i - 1) : isValidCellReference(keys[j])

DATA == <<"d", "a", "t", "a">>

\* new A1(initialData): with validateCellReferences.  A constructor that
\* throws leaves no instance; obj is the table the caller already held.
A1Constructor(obj, initialData) ==
    LET fresh ==
            IF Truthy(initialData)
            THEN IF ObjHas(initialData.o, DATA)
                 THEN (IF Truthy(ObjGet(initialData.o, DATA))
                       THEN Spread(ObjGet(initialData.o, DATA))
                       ELSE <<>>)
                 ELSE Spread(initialData)
            ELSE <<>>
        bad == FirstInvalid(ObjKeys(fresh))
    IN  IF bad # 0 THEN Threw(obj, InvalidRef(fresh[bad].k))
        ELSE Returned(fresh, Undefined)

\* Validation interleaved with the writes: the pairs before a bad key are kept.
RECURSIVE A1SetEager(_, _)
A1SetEager(obj, cellData) ==
    IF cellData = <<>> THEN Returned(obj, Undefined)
    ELSE IF ~isValidCellReference(Head(cellData).k)
    THEN Threw(obj, InvalidRef(Head(cellData).k))
    ELSE A1SetEager(ObjPut(obj, Head(cellData).k, Head(cellData).v), Tail(cellData))

A1Set(obj, cellData) ==
    LET bad == FirstInvalid(ObjKeys(cellData))
    IN  IF bad # 0 THEN Threw(obj, InvalidRef(cellData[bad].k))
        ELSE Returned(ObjAssign(obj, cellData), Undefined)

\* The validation forgotten.
A1SetItemNoValidation(obj, cellRef, value) ==
    Returned(ObjPut(obj, cellRef, value), Undefined)

A1SetItem(obj, cellRef, value) ==
    IF ~isValidCellReference(cellRef) THEN Threw(obj, InvalidRef(cellRef))
    ELSE Returned(ObjPut(obj, cellRef, value), Undefined)

\* A missing cell read as null.
A1GetItemOrNull(obj, cellRef) ==
    IF ~isValidCellReference(cellRef) THEN Threw(obj, InvalidRef(cellRef))
    ELSE Returned(obj, IF ObjHas(obj, cellRef) THEN ObjGet(obj, cellRef) ELSE Null)

A1GetItem(obj, cellRef) ==
    IF ~isValidCellReference(cellRef) THEN Threw(obj, InvalidRef(cellRef))
    ELSE Returned(obj, ObjGet(obj, cellRef))

A1GetItems(obj, cellRefs) ==
    LET bad == FirstInvalid(cellRefs)
        result[i \in 0..Len(cellRefs)] ==
            IF i = 0 THEN <<>>
            ELSE ObjPut(result[i - 1], cellRefs[i], ObjGet(obj, cellRefs[i]))
    IN  IF bad # 0 THEN Threw(obj, InvalidRef(cellRefs[bad]))
        ELSE Returned(obj, Obj(result[Len(cellRefs)]))

\* The validation forgotten.
A1RemoveItemNoValidation(obj, cellRef) == Returned(ObjDelete(obj, cellRef), Undefined)

\* An object a method hands to its caller: the very object this.data names
\* (same), or another object with contents of its own.
\* getAllData without the copy: this.data itself handed out.
A1GetAllDataNoCopy(obj) == [same |-> TRUE, obj |-> <<>>]

\* return { ...this.data }
A1GetAllData(obj) == [same |-> FALSE, obj |-> Spread(Obj(obj))]

\* return this.data
A1GetRawData(obj) == [same |-> TRUE, obj |-> <<>>]

A1RemoveItem(obj, cellRef) ==
    IF ~isValidCellReference(cellRef) THEN Threw(obj, InvalidRef(cellRef))
    ELSE Returned(ObjDelete(obj, cellRef), Undefined)

A1Clear(obj) == Returned(<<>>, Undefined)

\* The cells holding null left out of the count.
A1SizeNonNull(obj) ==
    LET nonNull(e) == e.v # Null /\ e.v # Undefined
    IN  Len(SelectSeq(obj, nonNull))

A1Size(obj) == Len(ObjKeys(obj))

A1IsEmpty(obj) == A1Size(obj) = 0

Min(S) == CHOOSE x \in S : \A y \in S : x <= y

Max(S) == CHOOSE x \in S : \A y \in S : x >= y

\* getBoundingBox: none for no keys; parseCellReference throws on a key that
\* is no cell reference.
\* The box of the first and the last key only.
getBoundingBoxFirstLast(obj) ==
    LET cellRefs == ObjKeys(obj)
        first == parseCellReference(cellRefs[1])
        final == parseCellReference(cellRefs[Len(cellRefs)])
    IN  IF Len(cellRefs) = 0 THEN [ok |-> TRUE, none |-> TRUE]
        ELSE [ok |-> TRUE, none |-> FALSE,
              minRow |-> Min({first.row, final.row}),
              maxRow |-> Max({first.row, final.row}),
              minCol |-> Min({first.column, final.column}),
              maxCol |-> Max({first.column, final.column})]

getBoundingBox(obj) ==
    LET cellRefs == ObjKeys(obj)
        positions == [i \in 1..Len(cellRefs) |-> parseCellReference(cellRefs[i])]
        idx == 1..Len(cellRefs)
    IN  IF Len(cellRefs) = 0 THEN [ok |-> TRUE, none |-> TRUE]
        ELSE IF \E i \in idx : ~positions[i].ok
        THEN [ok |-> FALSE, none |-> FALSE,
              msg |-> positions[CHOOSE i \in idx :
                          ~positions[i].ok
                          /\ \A j \in 1..(i - 1) : positions[j].ok].msg]
        ELSE [ok |-> TRUE, none |-> FALSE,
              minRow |-> Min({positions[i].row : i \in idx}),
              maxRow |-> Max({positions[i].row : i \in idx}),
              minCol |-> Min({positions[i].column : i \in idx}),
              maxCol |-> Max({positions[i].column : i \in idx})]

\* strings.join(sep)
RECURSIVE Join(_, _)
Join(strings, sep) ==
    IF strings = <<>> THEN <<>>
    ELSE IF Len(strings) = 1 THEN strings[1]
    ELSE strings[1] \o sep \o Join(Tail(strings), sep)

\* ref.replace(/\d+$/, "")
RECURSIVE StripTrailingDigits(_)
StripTrailingDigits(ref) ==
    IF ref # <<>> /\ IsDigit(ref[Len(ref)])
    THEN StripTrailingDigits(SubSeq(ref, 1, Len(ref) - 1))
    ELSE ref

DefaultCSVOptions ==
    [separator |-> <<",">>, includeHeaders |-> FALSE,
     lineEnding |-> <<LF>>, startFromColumnA |-> TRUE]

\* The fields of one line of toCSVString, row 0 being the header line.
CsvLineFields(obj, row, startCol, maxCol) ==
    [c \in 1..(maxCol - startCol + 1) |->
        LET cellRef == positionToCellReference(
                           [row |-> IF row = 0 THEN 1 ELSE row,
                            column |-> startCol + c - 1]).ref
        IN  IF row = 0 THEN StripTrailingDigits(cellRef)
            ELSE escapeCsvValue(ObjGet(obj, cellRef))]

\* The empty table written as one empty line.
A1ToCSVStringEmptyLine(obj, options) ==
    LET bounds == getBoundingBox(obj)
    IN  IF ~bounds.ok THEN Threw(obj, bounds.msg)
        ELSE Returned(obj, options.lineEnding)

A1ToCSVString(obj, options) ==
    LET bounds == getBoundingBox(obj)
    IN  IF ~bounds.ok THEN Threw(obj, bounds.msg)
        ELSE IF bounds.none THEN Returned(obj, <<>>)
        ELSE LET startCol == IF options.startFromColumnA THEN 1 ELSE bounds.minCol
                 headers ==
                     IF options.includeHeaders
                     THEN <<Join(CsvLineFields(obj, 0, startCol, bounds.maxCol),
                                 options.separator)>>
                     ELSE <<>>
                 dataLines ==
                     [r \in 1..(bounds.maxRow - bounds.minRow + 1) |->
                         Join(CsvLineFields(obj, bounds.minRow + r - 1,
                                            startCol, bounds.maxCol),
                              options.separator)]
             IN  Returned(obj, Join(headers \o dataLines, options.lineEnding))

\* The grid without the `?? null`: an absent cell left undefined.
A1ToArrayNoNull(obj, startFromColumnA) ==
    LET bounds == getBoundingBox(obj)
    IN  IF ~bounds.ok THEN Threw(obj, bounds.msg)
        ELSE IF bounds.none THEN Returned(obj, <<>>)
        ELSE LET startCol == IF startFromColumnA THEN 1 ELSE bounds.minCol
             IN  Returned(obj,
                     [r \in 1..(bounds.maxRow - bounds.minRow + 1) |->
                         [c \in 1..(bounds.maxCol - startCol + 1) |->
                             ObjGet(obj, positionToCellReference(
                                             [row |-> bounds.minRow + r - 1,
                                              column |-> startCol + c - 1]).ref)]])

\* The grid always begun at column A.
A1ToArrayFromColumnA(obj, startFromColumnA) ==
    LET bounds == getBoundingBox(obj)
    IN  IF ~bounds.ok THEN Threw(obj, bounds.msg)
        ELSE IF bounds.none THEN Returned(obj, <<>>)
        ELSE Returned(obj,
                 [r \in 1..(bounds.maxRow - bounds.minRow + 1) |->
                     [c \in 1..bounds.maxCol |->
                         LET value == ObjGet(obj, positionToCellReference(
                                                      [row |-> bounds.minRow + r - 1,
                                                       column |-> c]).ref)
                         IN  IF value = Undefined THEN Null ELSE value]])

A1ToArray(obj, startFromColumnA) ==
    LET bounds == getBoundingBox(obj)
    IN  IF ~bounds.ok THEN Threw(obj, bounds.msg)
        ELSE IF bounds.none THEN Returned(obj, <<>>)
        ELSE LET startCol == IF startFromColumnA THEN 1 ELSE bounds.minCol
                 cell(row, col) ==
                     LET value == ObjGet(obj, positionToCellReference(
                                                  [row |-> row, column |-> col]).ref)
                     IN  IF value = Undefined \/ value = Null THEN Null ELSE value
             IN  Returned(obj,
                     [r \in 1..(bounds.maxRow - bounds.minRow + 1) |->
                         [c \in 1..(bounds.maxCol - startCol + 1) |->
                             cell(bounds.minRow + r - 1, startCol + c - 1)]])

\* Object.entries(this.data)
A1ToCompactArray(obj) == Returned(obj, [i \in 1..Len(obj) |-> <<obj[i].k, obj[i].v>>])

\* cells.sort((a, b) => colA - colB): stable, so equal columns keep their order.
RECURSIVE SortCells(_)
SortCells(cells) ==
    IF cells = <<>> THEN <<>>
    ELSE LET sorted == SortCells(SubSeq(cells, 1, Len(cells) - 1))
             x == cells[Len(cells)]
             before(e) == columnLetterToNumber(e.column) <= columnLetterToNumber(x.column)
             after(e) == ~before(e)
         IN  SelectSeq(sorted, before) \o <<x>> \o SelectSeq(sorted, after)

\* The cells of one row as toRowBasedArray collects them, in the order of the keys.
RowCells(obj, row) ==
    LET inRow(e) == parseCellReference(e.k).row = row
        entries == SelectSeq(obj, inRow)
    IN  [i \in 1..Len(entries) |->
            [column |-> StripTrailingDigits(
                            positionToCellReference(
                                [row |-> 1,
                                 column |-> parseCellReference(entries[i].k).column]).ref),
             value |-> entries[i].v]]

\* The cells of a row left in the order of the keys.
A1ToRowBasedArrayUnsorted(obj) ==
    LET bounds == getBoundingBox(obj)
        group(row) == [row |-> row, cells |-> RowCells(obj, row)]
        nonEmpty(g) == Len(g.cells) > 0
    IN  IF ~bounds.ok THEN Threw(obj, bounds.msg)
        ELSE IF bounds.none THEN Returned(obj, <<>>)
        ELSE Returned(obj,
                 SelectSeq([r \in 1..(bounds.maxRow - bounds.minRow + 1) |->
                               group(bounds.minRow + r - 1)], nonEmpty))

A1ToRowBasedArray(obj) ==
    LET bounds == getBoundingBox(obj)
        group(row) == [row |-> row, cells |-> SortCells(RowCells(obj, row))]
        nonEmpty(g) == Len(g.cells) > 0
    IN  IF ~bounds.ok THEN Threw(obj, bounds.msg)
        ELSE IF bounds.none THEN Returned(obj, <<>>)
        ELSE Returned(obj,
                 SelectSeq([r \in 1..(bounds.maxRow - bounds.minRow + 1) |->
                               group(bounds.minRow + r - 1)], nonEmpty))

\* Object.keys(this.data)
A1GetCellReferences(obj) == Returned(obj, ObjKeys(obj))

DefaultCSVImportOptions ==
    [separator |-> <<",">>, hasHeaders |-> FALSE, startRow |-> 1, startColumn |-> <<"A">>]

\* The two loops of loadFromCSVString, from field colIndex of row rowIndex
\* (both from 1 here): a reference that cannot be built throws out of them.
RECURSIVE LoadCells(_, _, _, _, _, _)
LoadCells(obj, dataRows, startRow, startColNum, rowIndex, colIndex) ==
    IF rowIndex > Len(dataRows) THEN Returned(obj, Undefined)
    ELSE IF colIndex > Len(dataRows[rowIndex])
    THEN LoadCells(obj, dataRows, startRow, startColNum, rowIndex + 1, 1)
    ELSE LET cellRef == positionToCellReference(
                            [row |-> startRow + (rowIndex - 1),
                             column |-> startColNum + (colIndex - 1)])
             parsedValue == parseValue(dataRows[rowIndex][colIndex])
         IN  IF ~cellRef.ok THEN Threw(obj, cellRef.msg)
             ELSE LoadCells(IF parsedValue # Null
                            THEN ObjPut(obj, cellRef.ref, parsedValue)
                            ELSE obj,
                            dataRows, startRow, startColNum, rowIndex, colIndex + 1)

\* The header row kept among the data rows.
A1LoadFromCSVStringKeepHeader(obj, csvString, options) ==
    LET rows == parseCsvString(csvString, options.separator)
        startColNum == columnLetterToNumber(options.startColumn)
    IN  IF Len(rows) = 0 THEN Returned(obj, Undefined)
        ELSE LoadCells(A1Clear(obj).data, rows, options.startRow, startColNum, 1, 1)

A1LoadFromCSVString(obj, csvString, options) ==
    LET rows == parseCsvString(csvString, options.separator)
        startColNum == columnLetterToNumber(options.startColumn)
        dataRows == IF options.hasHeaders THEN Tail(rows) ELSE rows
    IN  IF Len(rows) = 0 THEN Returned(obj, Undefined)
        ELSE LoadCells(A1Clear(obj).data, dataRows, options.startRow, startColNum, 1, 1)

\* static fromCSVString: a new, empty instance, loaded.
A1FromCSVString(csvString, options) ==
    A1LoadFromCSVString(A1Constructor(<<>>, Undefined).data, csvString, options)

(***************************************************************************)
(* Specification SpecCodec: the reference codec applied to bounded inputs. *)
(* An input is a position or a string; each action is one call.            *)
(***************************************************************************)
MaxRow == 104

MaxCol == 703

MaxLen == 3

CodecAlphabet == {"A", "B", "Z", "a", "0", "1", "9"}

StringsUpTo(alphabet, n) == UNION {[1..k -> alphabet] : k \in 0..n}

NamedStrings ==
    { <<"i", "n", "v", "a", "l", "i", "d">>, <<"A", "0">>, <<"1", "A">>, <<"A">>,
      <<"1", "2", "3">>, <<>>, <<"A", "1">>, <<"Z", "2", "6">>,
      <<"A", "A", "2", "7">>, <<"C", "Z", "1", "0", "4">> }

CodecInputs ==
    [kind : {"position"}, row : (-1)..MaxRow, column : (-1)..MaxCol]
    \cup [kind : {"string"}, s : StringsUpTo(CodecAlphabet, MaxLen) \cup NamedStrings]

Idle == [op |-> "none"]

InitCodec ==
    /\ input \in CodecInputs
    /\ pc = "input"
    /\ output = Idle
    /\ data = <<>>
    /\ last = Idle

\* positionToCellReference(input)
Encode ==
    /\ pc = "input" /\ input.kind = "position"
    /\ output' = positionToCellReference([row |-> input.row, column |-> input.column])
    /\ pc' = "encoded"
    /\ UNCHANGED <<input, data, last>>

\* parseCellReference of the reference just built
DecodeEncoded ==
    /\ pc = "encoded" /\ output.ok
    /\ output' = parseCellReference(output.ref)
    /\ pc' = "decoded"
    /\ UNCHANGED <<input, data, last>>

\* isValidCellReference(input)
Validate ==
    /\ pc = "input" /\ input.kind = "string"
    /\ output' = [ret |-> isValidCellReference(input.s)]
    /\ pc' = "validated"
    /\ UNCHANGED <<input, data, last>>

\* parseCellReference(input)
Decode ==
    /\ pc = "input" /\ input.kind = "string"
    /\ output' = parseCellReference(input.s)
    /\ pc' = "parsed"
    /\ UNCHANGED <<input, data, last>>

\* positionToCellReference of the position just parsed
EncodeDecoded ==
    /\ pc = "parsed" /\ output.ok
    /\ output' = positionToCellReference([row |-> output.row, column |-> output.column])
    /\ pc' = "reencoded"
    /\ UNCHANGED <<input, data, last>>

NextCodec == Encode \/ DecodeEncoded \/ Validate \/ Decode \/ EncodeDecoded

SpecCodec == InitCodec /\ [][NextCodec]_vars

(***************************************************************************)
(* Claims about the codec, under SpecCodec                                 *)
(***************************************************************************)
\* C4: for every row >= 1 and column >= 1, parseCellReference of
\* positionToCellReference({row, column}) returns exactly {row, column}.
C4_DecodeEncode ==
    pc = "decoded" =>
        output = [ok |-> TRUE, row |-> input.row, column |-> input.column]

\* C4's case: a position with a three-letter column and a three-digit row has
\* been encoded and decoded again.
C4_Witness ==
    /\ pc = "decoded" /\ input.row = 104 /\ input.column = 703
    /\ output.ok /\ output.column = 703

\* C5: for every string s that isValidCellReference accepts,
\* positionToCellReference(parseCellReference(s)) returns s itself.
C5_EncodeDecode ==
    pc = "reencoded" => output.ok /\ output.ref = input.s

\* The letters and digits the claims speak of, apart from the code's own scans.
AllUpper(s) == \A i \in 1..Len(s) : IsUpper(s[i])

AllDigits(s) == \A i \in 1..Len(s) : IsDigit(s[i])

\* One or more capitals, then one or more digits that are not all zeros.
GrammarAccepts(s) ==
    \E k \in 1..(Len(s) - 1) :
        /\ AllUpper(SubSeq(s, 1, k))
        /\ AllDigits(SubSeq(s, k + 1, Len(s)))
        /\ \E j \in (k + 1)..Len(s) : s[j] # "0"

RejectedExamples ==
    { <<"i", "n", "v", "a", "l", "i", "d">>, <<"A", "0">>, <<"1", "A">>, <<"A">>,
      <<"1", "2", "3">>, <<>> }

\* C6: isValidCellReference(s) is true exactly when s is one or more capitals
\* followed by one or more digits that parse to a row >= 1, false for every
\* other string (the six examples among them), and true exactly when
\* parseCellReference(s) does not raise.
C6_IsValidGrammar ==
    /\ pc = "validated" =>
          /\ output.ret = GrammarAccepts(input.s)
          /\ input.s \in RejectedExamples => ~output.ret
    /\ pc = "parsed" => output.ok = GrammarAccepts(input.s)

\* C6's case: "A0", which the grammar of letters and digits matches, has been
\* validated and rejected for its row.
C6_Witness == pc = "validated" /\ input.s = <<"A", "0">> /\ ~output.ret

\* value(s + c) = 26 * value(s) + value(c), A = 1 ... Z = 26
RECURSIVE Bijective26(_)
Bijective26(s) ==
    IF s = <<>> THEN 0
    ELSE 26 * Bijective26(SubSeq(s, 1, Len(s) - 1))
         + (CHOOSE i \in 1..26 : Upper[i] = s[Len(s)])

RECURSIVE Decimal(_)
Decimal(s) ==
    IF s = <<>> THEN 0
    ELSE 10 * Decimal(SubSeq(s, 1, Len(s) - 1))
         + ((CHOOSE i \in 1..10 : Digits[i] = s[Len(s)]) - 1)

\* ref is the bijective base-26 numeral of column, then the decimal numeral of row.
IsNumeralOf(ref, row, column) ==
    \E k \in 1..(Len(ref) - 1) :
        LET letters == SubSeq(ref, 1, k)
            digits == SubSeq(ref, k + 1, Len(ref))
        IN  /\ AllUpper(letters) /\ Bijective26(letters) = column
            /\ AllDigits(digits) /\ digits[1] # "0" /\ Decimal(digits) = row

EncodeExamples ==
    { <<1, 1, <<"A", "1">>>>, <<26, 26, <<"Z", "2", "6">>>>,
      <<27, 27, <<"A", "A", "2", "7">>>>, <<104, 104, <<"C", "Z", "1", "0", "4">>>> }

\* C7: positionToCellReference({row, column}) raises when row < 1 or column < 1
\* and otherwise returns the bijective base-26 numeral of column followed by
\* the decimal row: (1,1) A1, (26,26) Z26, (27,27) AA27, (104,104) CZ104.
C7_EncodeNumeral ==
    pc = "encoded" =>
        /\ output.ok = (input.row >= 1 /\ input.column >= 1)
        /\ output.ok => IsNumeralOf(output.ref, input.row, input.column)
        /\ \A e \in EncodeExamples :
               (input.row = e[1] /\ input.column = e[2]) => output.ref = e[3]

\* C7's case: (104, 104) has been encoded, to CZ104.
C7_Witness ==
    /\ pc = "encoded" /\ input.row = 104 /\ input.column = 104
    /\ output.ok /\ output.ref = <<"C", "Z", "1", "0", "4">>

(***************************************************************************)
(* Specification Spec: one table and its owner, who calls the public       *)
(* methods one after the other.  last is the call that just ended: its     *)
(* name, its argument, and whether it returned or threw, with what.        *)
(***************************************************************************)
MaxBatch == 2

RefA1 == <<"A", "1">>

RefB1 == <<"B", "1">>

RefA0 == <<"A", "0">>

ValidRefs == {RefA1, RefB1}

InvalidRefs == {RefA0, <<"i", "n", "v", "a", "l", "i", "d">>, <<>>}

RefInputs == ValidRefs \cup InvalidRefs

Values == {IntNum(1), Str(<<"x">>)}

BatchKeys == {RefA1, RefB1, RefA0}

IsInjective(f) == \A i, j \in DOMAIN f : f[i] = f[j] => i = j

\* Mappings written as object literals: up to n distinct keys, in any order.
Mappings(keys, n) ==
    UNION { { [i \in 1..k |-> Entry(ks[i], vs[i])] :
                ks \in {f \in [1..k -> keys] : IsInjective(f)},
                vs \in [1..k -> Values] } : k \in 0..n }

CellDataInputs == Mappings(BatchKeys, MaxBatch)

RefListInputs == UNION {[1..k -> BatchKeys] : k \in 0..MaxBatch}

CtorKeys == {RefA1, RefA0}

CtorMappings == Mappings(CtorKeys, MaxBatch)

\* No argument, a flat mapping, {data: mapping}, and {data: ...} beside a key.
CtorInputs ==
    {Undefined}
    \cup {Obj(m) : m \in CtorMappings}
    \cup {Obj(<<Entry(DATA, Obj(m))>>) : m \in CtorMappings}
    \cup {Obj(<<Entry(DATA, v), Entry(RefA0, IntNum(1))>>) :
              v \in {Undefined, Obj(<<Entry(RefA1, IntNum(1))>>)}}

CsvTexts ==
    { <<>>, <<"x">>, <<"x", ",", "1">>, <<"1", LF, "x">>, <<",", "x", LF, " ">> }

ImportOptionInputs ==
    { DefaultCSVImportOptions,
      [DefaultCSVImportOptions EXCEPT !.hasHeaders = TRUE],
      [DefaultCSVImportOptions EXCEPT !.startRow = 0],
      [DefaultCSVImportOptions EXCEPT !.startColumn = <<>>] }

FromOptionInputs ==
    {DefaultCSVImportOptions, [DefaultCSVImportOptions EXCEPT !.startRow = 0]}

Call(op, arg, res) ==
    [op |-> op, arg |-> arg, ok |-> res.ok, msg |-> res.msg, ret |-> res.ret]

Init ==
    /\ data = A1Constructor(<<>>, Undefined).data
    /\ last = Call("new", Undefined, A1Constructor(<<>>, Undefined))
    /\ pc = "table"
    /\ input = Idle
    /\ output = Idle

Frame == UNCHANGED <<pc, input, output>>

\* table = new A1(initialData): the owner keeps the old table when it throws
Construct(initialData) ==
    LET res == A1Constructor(data, initialData)
    IN  data' = res.data /\ last' = Call("new", initialData, res) /\ Frame

Set(cellData) ==
    LET res == A1Set(data, cellData)
    IN  data' = res.data /\ last' = Call("set", cellData, res) /\ Frame

SetItem(cellRef, value) ==
    LET res == A1SetItem(data, cellRef, value)
    IN  data' = res.data /\ last' = Call("setItem", <<cellRef, value>>, res) /\ Frame

GetItem(cellRef) ==
    LET res == A1GetItem(data, cellRef)
    IN  data' = res.data /\ last' = Call("getItem", cellRef, res) /\ Frame

GetItems(cellRefs) ==
    LET res == A1GetItems(data, cellRefs)
    IN  data' = res.data /\ last' = Call("getItems", cellRefs, res) /\ Frame

RemoveItem(cellRef) ==
    LET res == A1RemoveItem(data, cellRef)
    IN  data' = res.data /\ last' = Call("removeItem", cellRef, res) /\ Frame

Clear ==
    LET res == A1Clear(data)
    IN  data' = res.data /\ last' = Call("clear", Undefined, res) /\ Frame

LoadFromCSVString(csvString, options) ==
    LET res == A1LoadFromCSVString(data, csvString, options)
    IN  /\ data' = res.data
        /\ last' = Call("loadFromCSVString", <<csvString, options>>, res)
        /\ Frame

\* table = A1.fromCSVString(csvString, options): the owner keeps the old table
\* when it throws
FromCSVString(csvString, options) ==
    LET res == A1FromCSVString(csvString, options)
    IN  /\ data' = IF res.ok THEN res.data ELSE data
        /\ last' = Call("fromCSVString", <<csvString, options>>, res)
        /\ Frame

Next ==
    \/ \E initialData \in CtorInputs : Construct(initialData)
    \/ \E cellData \in CellDataInputs : Set(cellData)
    \/ \E cellRef \in RefInputs, value \in Values : SetItem(cellRef, value)
    \/ \E cellRef \in RefInputs : GetItem(cellRef)
    \/ \E cellRefs \in RefListInputs : GetItems(cellRefs)
    \/ \E cellRef \in RefInputs : RemoveItem(cellRef)
    \/ Clear
    \/ \E csvString \in CsvTexts, options \in ImportOptionInputs :
           LoadFromCSVString(csvString, options)
    \/ \E csvString \in CsvTexts, options \in FromOptionInputs :
           FromCSVString(csvString, options)

Spec == Init /\ [][Next]_vars

(***************************************************************************)
(* Claims about the table, under Spec                                      *)
(***************************************************************************)
\* C1: after any sequence of public operations (construction, set, setItem,
\* removeItem, clear, loadFromCSVString, fromCSVString) every key present in
\* the table is a valid cell reference.
C1_KeysValid == \A i \in 1..Len(data) : isValidCellReference(data[i].k)

\* C1's case: a CSV import has just stored two cells.
C1_Witness == last.op = "loadFromCSVString" /\ last.ok /\ Len(data) = 2

HasInvalidKey(m) == \E i \in 1..Len(m) : ~isValidCellReference(m[i].k)

\* C2: set(cellData) is all-or-nothing: with any invalid key, wherever it
\* stands among the keys, set raises and the table (keys, values, size()) is
\* what it was; with every key valid, every pair of cellData is written.
C2_SetAllOrNothing ==
    [][last'.op = "set" =>
           IF HasInvalidKey(last'.arg)
           THEN ~last'.ok /\ data' = data /\ A1Size(data') = A1Size(data)
           ELSE /\ last'.ok
                /\ \A i \in 1..Len(last'.arg) :
                       ObjGet(data', last'.arg[i].k) = last'.arg[i].v]_vars

\* C2's case: set has just rejected a batch whose bad key came after a good
\* one, and the table it left holds cells.
C2_Witness ==
    /\ last.op = "set" /\ ~last.ok /\ Len(last.arg) = 2
    /\ last.arg[1].k = RefB1 /\ last.arg[2].k = RefA0
    /\ Len(data) = 1

HasInvalidRef(cellRefs) == \E i \in 1..Len(cellRefs) : ~isValidCellReference(cellRefs[i])

\* The two forms of the constructor's argument: a mapping of references, which
\* has no key "data", and {data: mapping}.
IsFlatMapping(arg) == arg.t = "object" /\ ~ObjHas(arg.o, DATA)

IsDataWrapper(arg) ==
    /\ arg.t = "object" /\ Len(arg.o) = 1
    /\ arg.o[1].k = DATA /\ arg.o[1].v.t = "object"

\* The call that just ended raised naming cellRef and left the table as it was.
RaisedFor(cellRef) == ~last'.ok /\ last'.msg[2] = cellRef /\ data' = data

MaxCsvCells == 4

Absent == [t |-> "absent"]

CsvKeyOrder == <<RefA1, RefB1, <<"A", "2">>>>

CsvValues ==
    { IntNum(1), Num(TRUE, 3, <<"5">>), Bool(FALSE), Str(<<"x">>),
      Str(<<"a", ",", "b">>), Str(<<"a", ";", "b">>), Str(<<"q", QUOTE>>),
      Str(<<"l", LF, "m">>) }

\* The table new A1({...}) builds from the cells that f gives a value.
TableOf(f) ==
    LET present(e) == e.v # Absent
    IN  SelectSeq([i \in 1..Len(CsvKeyOrder) |-> Entry(CsvKeyOrder[i], f[i])], present)

CsvTables == {TableOf(f) : f \in [1..Len(CsvKeyOrder) -> CsvValues \cup {Absent}]}

ExportOptionInputs ==
    [separator : {<<",">>, <<";">>}, includeHeaders : BOOLEAN,
     lineEnding : {<<LF>>, <<CR, LF>>}, startFromColumnA : BOOLEAN]

CsvFields == {<<"a">>, <<"b", "c">>, <<"a", ",">>, <<QUOTE, "a">>, <<"a", LF, "b">>}

RowShapes == {s \in (1..MaxCsvCells) \X (1..MaxCsvCells) : s[1] * s[2] <= MaxCsvCells}

RowInputs == UNION {[1..s[1] -> [1..s[2] -> CsvFields]] : s \in RowShapes}

CsvInputs ==
    [kind : {"table"}, table : CsvTables, options : ExportOptionInputs]
    \cup [kind : {"rows"}, rows : RowInputs,
          options : {o \in ExportOptionInputs : ~o.includeHeaders /\ o.startFromColumnA}]

\* The table whose cell in row r and column c holds the string rows[r][c].
TableOfRows(rows) ==
    LET w == Len(rows[1])
    IN  [n \in 1..(Len(rows) * w) |->
            LET r == ((n - 1) \div w) + 1
                c == ((n - 1) % w) + 1
            IN  Entry(positionToCellReference([row |-> r, column |-> c]).ref,
                      Str(rows[r][c]))]

InitCsv ==
    /\ input \in CsvInputs
    /\ pc = "input"
    /\ output = Idle
    /\ data = <<>>
    /\ last = Idle

\* table.toCSVString(options)
Export ==
    /\ pc = "input" /\ input.kind = "table"
    /\ output' = A1ToCSVString(input.table, input.options)
    /\ pc' = "exported"
    /\ UNCHANGED <<input, data, last>>

\* A1.fromCSVString(csv, {separator, hasHeaders}) of the text just exported
Import ==
    /\ pc = "exported" /\ output.ok
    /\ output' = A1FromCSVString(output.ret,
                     [DefaultCSVImportOptions EXCEPT
                         !.separator = input.options.separator,
                         !.hasHeaders = input.options.includeHeaders])
    /\ pc' = "restored"
    /\ UNCHANGED <<input, data, last>>

\* The rows written as toCSVString writes them: each field through
\* escapeCsvValue, fields joined by the separator, lines by the line ending.
WriteRows ==
    /\ pc = "input" /\ input.kind = "rows"
    /\ output' = A1ToCSVString(TableOfRows(input.rows), input.options)
    /\ pc' = "written"
    /\ UNCHANGED <<input, data, last>>

\* parseCsvString(text, separator) of the text just written
ParseWritten ==
    /\ pc = "written" /\ output.ok
    /\ output' = parseCsvString(output.ret, input.options.separator)
    /\ pc' = "parsed"
    /\ UNCHANGED <<input, data, last>>

NextCsv == Export \/ Import \/ WriteRows \/ ParseWritten

SpecCsv == InitCsv /\ [][NextCsv]_vars

(***************************************************************************)
(* Claims about CSV, under SpecCsv                                         *)
(***************************************************************************)
\* The same cells with the same values, whatever the order of the keys.
SameCells(a, b) ==
    /\ \A i \in 1..Len(a) : ObjHas(b, a[i].k) /\ ObjGet(b, a[i].k) = a[i].v
    /\ \A i \in 1..Len(b) : ObjHas(a, b[i].k)

\* C8: for every table T whose cells hold numbers, booleans or strings,
\* A1.fromCSVString(T.toCSVString()) holds exactly the occupied cell
\* references of T, each with the same value and the same type.
C8_TableRoundTrip ==
    (pc = "restored" /\ input.options = DefaultCSVOptions)
        => output.ok /\ SameCells(output.data, input.table)

\* C9: for every rectangle of string fields, writing it (fields escaped, joined
\* by the separator, lines joined by the line ending) and parsing the text with
\* parseCsvString returns the same rows with the same field strings.
C9_FieldRoundTrip == pc = "parsed" => output = input.rows

\* The field as the writer is said to emit it for the configured separator.
ClaimedField(text, separator) ==
    IF (\E i \in 1..Len(text) : <<text[i]>> = separator \/ text[i] \in {QUOTE, LF, CR})
    THEN <<QUOTE>> \o DoubleQuotes(text) \o <<QUOTE>>
    ELSE text

\* C10: toCSVString writes a field wrapped in quotes, its quotes doubled,
\* exactly when its text contains the configured separator, a quote, a line
\* feed or a carriage return, and unchanged otherwise, for every separator.
C10_QuotedWhenNeeded ==
    (pc = "exported" /\ ~input.options.includeHeaders
        /\ Len(input.table) = 1 /\ input.table[1].k = RefA1)
        => output.ret = ClaimedField(JsString(input.table[1].v), input.options.separator)

(***************************************************************************)
(* Specification SpecImport: CSV import and value coercion applied to      *)
(* bounded inputs.  An input is a table with a text and import options, or *)
(* one field.                                                              *)
(***************************************************************************)
MaxFieldLen == 3

RefZ1 == <<"Z", "1">>

PriorTables ==
    { <<>>,
      <<Entry(RefZ1, Str(<<"e">>))>>,
      <<Entry(RefA1, Null)>>,
      <<Entry(RefB1, IntNum(1)), Entry(RefA1, Str(<<"x">>))>> }

ImportTexts ==
    { <<>>,
      <<" ">>,
      <<"A", ",", ",", "C", LF, ",", "B", ",">>,
      <<"h", ",", "i", LF, "7", ",", "t", "r", "u", "e">>,
      <<"x", ";", "1", CR, LF, LF, ";", "y">>,
      <<"5">> }

ImportOptions ==
    [separator : {<<",">>, <<";">>}, hasHeaders : BOOLEAN,
     startRow : {0, 1, 5}, startColumn : {<<>>, <<"A">>, <<"C">>}]

FieldAlphabet == {"-", ".", "0", "5", "a"}

NamedFields ==
    { <<"t", "r", "u", "e">>, <<"T", "R", "U", "E">>, <<"F", "a", "l", "s", "e">>,
      <<"N", "a", "N">>, <<"I", "n", "f", "i", "n", "i", "t", "y">>,
      <<"n", "u", "l", "l">>, <<"4", "2", "a", "b", "c">>,
      <<"3", ".", "1", "4">>, <<"-", "1", "0">>, <<"t", "r", "u", "e", " ">> }

ImportInputs ==
    [kind : {"import"}, prior : PriorTables, text : ImportTexts, options : ImportOptions]
    \cup [kind : {"field"}, s : StringsUpTo(FieldAlphabet, MaxFieldLen) \cup NamedFields]

InitImport ==
    /\ input \in ImportInputs
    /\ pc = "input"
    /\ output = Idle
    /\ data = <<>>
    /\ last = Idle

\* prior.loadFromCSVString(text, options)
Load ==
    /\ pc = "input" /\ input.kind = "import"
    /\ output' = A1LoadFromCSVString(input.prior, input.text, input.options)
    /\ pc' = "loaded"
    /\ UNCHANGED <<input, data, last>>

\* A1.fromCSVString(text, options)
Create ==
    /\ pc = "input" /\ input.kind = "import"
    /\ output' = A1FromCSVString(input.text, input.options)
    /\ pc' = "created"
    /\ UNCHANGED <<input, data, last>>

\* parseValue(field)
Coerce ==
    /\ pc = "input" /\ input.kind = "field"
    /\ output' = [ret |-> parseValue(input.s)]
    /\ pc' = "coerced"
    /\ UNCHANGED <<input, data, last>>

NextImport == Load \/ Create \/ Coerce

SpecImport == InitImport /\ [][NextImport]_vars

(***************************************************************************)
(* Claims about import, under SpecImport                                   *)
(***************************************************************************)
\* C11: loadFromCSVString has replace semantics: after it returns, whatever
\* the text and whatever the table held before, the table holds exactly the
\* cells derived from the text, and no earlier cell the text does not define.
C11_LoadReplaces ==
    (pc = "loaded" /\ output.ok)
        => /\ output.data = A1FromCSVString(input.text, input.options).data
           /\ \A i \in 1..Len(input.prior) :
                  ObjHas(output.data, input.prior[i].k)
                      => ObjHas(A1FromCSVString(input.text, input.options).data,
                                input.prior[i].k)

\* The rows of the text that import reads as data: tokenized, the first
\* dropped when hasHeaders is true.
ImportedRows ==
    LET rows == parseCsvString(input.text, input.options.separator)
    IN  IF input.options.hasHeaders /\ rows # <<>> THEN Tail(rows) ELSE rows

\* table holds value at the reference of (row, column).
HoldsAt(table, row, column, value) ==
    \E i \in 1..Len(table) :
        IsNumeralOf(table[i].k, row, column) /\ table[i].v = value

\* C12: on import, after the first tokenized row is dropped when hasHeaders is
\* true, the non-empty field at index c of remaining row r (0-based) is stored
\* at row startRow + r and column column(startColumn) + c, holding
\* parseValue(field); with the defaults the first field lands at A1, with
\* startRow 5 and startColumn "C" at C5.
C12_ImportPlacement ==
    (pc \in {"loaded", "created"} /\ output.ok)
        => /\ \A r \in 1..Len(ImportedRows) : \A c \in 1..Len(ImportedRows[r]) :
                  ImportedRows[r][c] # <<>>
                      => HoldsAt(output.data,
                                 input.options.startRow + (r - 1),
                                 Bijective26(input.options.startColumn) + (c - 1),
                                 parseValue(ImportedRows[r][c]))
           /\ (ImportedRows # <<>> /\ ImportedRows[1][1] # <<>>
                  /\ input.options.startRow = 1 /\ input.options.startColumn = <<"A">>)
                  => ObjHas(output.data, RefA1)
           /\ (ImportedRows # <<>> /\ ImportedRows[1][1] # <<>>
                  /\ input.options.startRow = 5 /\ input.options.startColumn = <<"C">>)
                  => ObjHas(output.data, <<"C", "5">>)

\* C12's case: a text with a header row has been loaded at C5 over a table
\* that held cells; the field after the header stands at C5, as a number.
C12_Witness ==
    /\ pc = "loaded" /\ output.ok /\ input.options.hasHeaders
    /\ input.options.startRow = 5 /\ input.options.startColumn = <<"C">>
    /\ input.prior # <<>>
    /\ ObjGet(output.data, <<"C", "5">>) = IntNum(7)
    /\ ObjGet(output.data, <<"D", "5">>) = Bool(TRUE)

\* C13: an empty CSV field never becomes a key: right after loadFromCSVString
\* or fromCSVString the table has no key for a position whose field was the
\* empty string, and no stored value is null or undefined; for "A,,C\n,B,"
\* the keys are exactly A1, C1, B2.
C13_EmptyFieldNoKey ==
    (pc \in {"loaded", "created"} /\ output.ok)
        => /\ \A r \in 1..Len(ImportedRows) : \A c \in 1..Len(ImportedRows[r]) :
                  ImportedRows[r][c] = <<>>
                      => ~\E i \in 1..Len(output.data) :
                             IsNumeralOf(output.data[i].k,
                                 input.options.startRow + (r - 1),
                                 Bijective26(input.options.startColumn) + (c - 1))
           /\ \A i \in 1..Len(output.data) : output.data[i].v \notin {Null, Undefined}
           /\ (input.text = <<"A", ",", ",", "C", LF, ",", "B", ",">>
                  /\ input.options = DefaultCSVImportOptions)
                  => ObjKeys(output.data) = <<RefA1, <<"C", "1">>, <<"B", "2">>>>


\* optional minus, one or more digits, optionally a dot and one or more digits
NumberGrammar(s) ==
    \E a \in 0..1 : \E k \in (a + 1)..Len(s) :
        /\ a = 1 => s[1] = "-"
        /\ AllDigits(SubSeq(s, a + 1, k))
        /\ \/ k = Len(s)
           \/ /\ k + 2 <= Len(s) /\ s[k + 1] = "."
              /\ AllDigits(SubSeq(s, k + 2, Len(s)))

\* The number a numeral of that grammar denotes.
NumberOf(s) ==
    LET a == IF s[1] = "-" THEN 1 ELSE 0
        k == CHOOSE k \in (a + 1)..Len(s) :
                 /\ AllDigits(SubSeq(s, a + 1, k))
                 /\ k = Len(s) \/ s[k + 1] = "."
    IN  Num(a = 1, Decimal(SubSeq(s, a + 1, k)),
            StripTrailingZeros(SubSeq(s, k + 2, Len(s))))

\* C14: parseValue applies its rules in this order: the empty string gives
\* null; a field of the grammar -?digits(.digits)? gives that number; a field
\* equal to "true" or "false" whatever its case gives the boolean; every other
\* field ("NaN", "Infinity", "null", "42abc" among them) comes back unchanged.
C14_ParseValueOrder ==
    pc = "coerced" =>
        output.ret =
            IF input.s = <<>> THEN Null
            ELSE IF NumberGrammar(input.s) THEN NumberOf(input.s)
            ELSE IF ToLowerCase(input.s) = <<"t", "r", "u", "e">> THEN Bool(TRUE)
            ELSE IF ToLowerCase(input.s) = <<"f", "a", "l", "s", "e">> THEN Bool(FALSE)
            ELSE Str(input.s)


(***************************************************************************)
(* Specification SpecViews: one table whose owner writes and removes cells *)
(* and reads the table through its views: toArray, toCompactArray,         *)
(* toRowBasedArray, getCellReferences and toCSVString.                     *)
(***************************************************************************)
MaxCells == 3

RefC3 == <<"C", "3">>

RefE1 == <<"E", "1">>

RefB2 == <<"B", "2">>

RefAA1 == <<"A", "A", "1">>

ViewRefs == {RefA1, RefC3, RefE1, RefB2}

RowRefs == {RefA1, RefC3, RefZ1, RefAA1}

ViewValues == {IntNum(1), Null}

ViewBatches ==
    { <<Entry(RefE1, IntNum(1)), Entry(RefA1, IntNum(1))>>,
      <<Entry(RefA1, Null), Entry(RefC3, IntNum(1))>> }

ViewCsvOptions ==
    { DefaultCSVOptions,
      [DefaultCSVOptions EXCEPT !.includeHeaders = TRUE],
      [DefaultCSVOptions EXCEPT !.startFromColumnA = FALSE, !.lineEnding = <<CR, LF>>],
      [DefaultCSVOptions EXCEPT !.includeHeaders = TRUE, !.separator = <<";">>,
                                !.startFromColumnA = FALSE] }

InitViews ==
    /\ data = A1Constructor(<<>>, Undefined).data
    /\ last = Call("new", Undefined, A1Constructor(<<>>, Undefined))
    /\ pc = "views"
    /\ input = Idle
    /\ output = Idle

\* setItem, on a table kept to MaxCells cells
SetCell(cellRef, value) ==
    /\ Len(data) < MaxCells \/ ObjHas(data, cellRef)
    /\ SetItem(cellRef, value)

ToArray(startFromColumnA) ==
    LET res == A1ToArray(data, startFromColumnA)
    IN  data' = res.data /\ last' = Call("toArray", startFromColumnA, res) /\ Frame

ToCompactArray ==
    LET res == A1ToCompactArray(data)
    IN  data' = res.data /\ last' = Call("toCompactArray", Undefined, res) /\ Frame

ToRowBasedArray ==
    LET res == A1ToRowBasedArray(data)
    IN  data' = res.data /\ last' = Call("toRowBasedArray", Undefined, res) /\ Frame

GetCellReferences ==
    LET res == A1GetCellReferences(data)
    IN  data' = res.data /\ last' = Call("getCellReferences", Undefined, res) /\ Frame

\* set, on a table kept to MaxCells cells
SetCells(cellData) ==
    /\ Len(ObjAssign(data, cellData)) <= MaxCells
    /\ Set(cellData)

Size ==
    /\ last' = Call("size", Undefined, Returned(data, A1Size(data)))
    /\ UNCHANGED <<data, pc, input, output>>

IsEmpty ==
    /\ last' = Call("isEmpty", Undefined, Returned(data, A1IsEmpty(data)))
    /\ UNCHANGED <<data, pc, input, output>>

ToCSVString(options) ==
    LET res == A1ToCSVString(data, options)
    IN  data' = res.data /\ last' = Call("toCSVString", options, res) /\ Frame

NextViews ==
    \/ \E cellRef \in ViewRefs, value \in ViewValues : SetCell(cellRef, value)
    \/ \E cellData \in ViewBatches : SetCells(cellData)
    \/ \E cellRef \in ViewRefs : RemoveItem(cellRef)
    \/ Clear
    \/ Size
    \/ IsEmpty
    \/ \E startFromColumnA \in BOOLEAN : ToArray(startFromColumnA)
    \/ ToCompactArray
    \/ ToRowBasedArray
    \/ GetCellReferences
    \/ \E options \in ViewCsvOptions : ToCSVString(options)

SpecViews == InitViews /\ [][NextViews]_vars

\* The same owner with columns beyond Z, reading the table by rows.
NextRows ==
    \/ \E cellRef \in RowRefs, value \in ViewValues : SetCell(cellRef, value)
    \/ \E cellRef \in RowRefs : RemoveItem(cellRef)
    \/ Clear
    \/ ToRowBasedArray
    \/ GetCellReferences

SpecRows == InitViews /\ [][NextRows]_vars

(***************************************************************************)
(* Claims about the views, under SpecViews                                 *)
(***************************************************************************)
\* The row and the column a key names: its digits read in base ten, its
\* letters as a bijective base-26 numeral.
KeyRow(k) == Decimal(SelectSeq(k, IsDigit))

KeyCol(k) == Bijective26(SelectSeq(k, IsUpper))

\* The table has a key that is the reference of (row, column).
Occupied(table, row, column) ==
    \E i \in 1..Len(table) : KeyRow(table[i].k) = row /\ KeyCol(table[i].k) = column

\* The value stored at (row, column), for an occupied position.
StoredAt(table, row, column) ==
    table[CHOOSE i \in 1..Len(table) :
              KeyRow(table[i].k) = row /\ KeyCol(table[i].k) = column].v

OccupiedRows(table) == {KeyRow(table[i].k) : i \in 1..Len(table)}

OccupiedCols(table) == {KeyCol(table[i].k) : i \in 1..Len(table)}

KeySet(table) == {table[i].k : i \in 1..Len(table)}

NoNullStored(table) == \A i \in 1..Len(table) : table[i].v # Null

\* Every entry of the grid at an unoccupied position is null.
NullWhereUnoccupied(grid, minRow, startCol) ==
    \A r \in 1..Len(grid) : \A c \in 1..Len(grid[r]) :
        ~Occupied(data, minRow + r - 1, startCol + c - 1) => grid[r][c] = Null

C17_EmptyTableViews ==
    /\ (data = <<>> /\ last.op \in {"toCSVString", "toArray", "toCompactArray",
                                    "toRowBasedArray"})
           => last.ok /\ last.ret = <<>>
    /\ getBoundingBox(data).ok
    /\ getBoundingBox(data).none <=> (data = <<>>)

\* C17's case: toCSVString with includeHeaders true has returned the empty
\* string for a table that holds no keys.
C17_Witness ==
    /\ data = <<>> /\ last.op = "toCSVString" /\ last.arg.includeHeaders
    /\ last.ret = <<>>

EntriesOfRow(table, row) ==
    LET inRow(e) == KeyRow(e.k) = row
    IN  SelectSeq(table, inRow)

C20_MissingRefNoRaise ==
    [][/\ (last'.op \in {"getItem", "removeItem"}
              /\ isValidCellReference(last'.arg) /\ ~ObjHas(data, last'.arg))
              => last'.ok /\ last'.ret = Undefined /\ data' = data
       /\ (last'.op = "getItems" /\ ~HasInvalidRef(last'.arg))
              => /\ last'.ok /\ data' = data
                 /\ \A i \in 1..Len(last'.arg) :
                        ~ObjHas(data, last'.arg[i])
                            => ObjGet(last'.ret.o, last'.arg[i]) = Undefined
      ]_vars

\* C20's case: getItem has just returned undefined for B1 on a table that
\* holds A1 and not B1.
C20_Witness ==
    /\ last.op = "getItem" /\ last.arg = RefB1 /\ last.ok /\ last.ret = Undefined
    /\ ObjHas(data, RefA1) /\ ~ObjHas(data, RefB1)


(***************************************************************************)
(* Specification SpecAlias: one table and an object its owner got from     *)
(* getAllData or getRawData.  output is that object: how it was got, and   *)
(* whether it is the object this.data names or one with its own contents.  *)
(***************************************************************************)
AliasRefs == {RefA1, RefB1}

AliasBatches == {<<Entry(RefB1, IntNum(1)), Entry(RefA1, Str(<<"x">>))>>}

AliasTexts == {<<>>, <<"x">>}

NoObject == [kind |-> "none", same |-> FALSE, obj |-> <<>>]

\* The contents of the object the owner holds.
Held == IF output.same THEN data ELSE output.obj

InitAlias ==
    /\ data = A1Constructor(<<>>, Undefined).data
    /\ last = Call("new", Undefined, A1Constructor(<<>>, Undefined))
    /\ pc = "alias"
    /\ input = Idle
    /\ output = NoObject

\* this.data = {...}: this.data names a new object, and an object handed out
\* before keeps the contents it had.
Detach ==
    output' = IF output.same THEN [output EXCEPT !.same = FALSE, !.obj = data]
              ELSE output

\* held = table.getAllData()
GetAllData ==
    /\ output' = [kind |-> "copy"] @@ A1GetAllData(data)
    /\ last' = Call("getAllData", Undefined, Returned(data, Undefined))
    /\ UNCHANGED <<data, pc, input>>

\* held = table.getRawData()
GetRawData ==
    /\ output' = [kind |-> "raw"] @@ A1GetRawData(data)
    /\ last' = Call("getRawData", Undefined, Returned(data, Undefined))
    /\ UNCHANGED <<data, pc, input>>

\* held[cellRef] = value, by the owner
WriteHeld(cellRef, value) ==
    /\ output.kind # "none"
    /\ IF output.same
       THEN data' = ObjPut(data, cellRef, value) /\ output' = output
       ELSE data' = data /\ output' = [output EXCEPT !.obj = ObjPut(@, cellRef, value)]
    /\ last' = Call("write", <<cellRef, value>>, Returned(data', Undefined))
    /\ UNCHANGED <<pc, input>>

\* delete held[cellRef], by the owner
DeleteHeld(cellRef) ==
    /\ output.kind # "none"
    /\ IF output.same
       THEN data' = ObjDelete(data, cellRef) /\ output' = output
       ELSE data' = data /\ output' = [output EXCEPT !.obj = ObjDelete(@, cellRef)]
    /\ last' = Call("delete", cellRef, Returned(data', Undefined))
    /\ UNCHANGED <<pc, input>>

\* table.clear(): this.data = {}
ClearTable ==
    LET res == A1Clear(data)
    IN  /\ data' = res.data /\ last' = Call("clear", Undefined, res)
        /\ Detach
        /\ UNCHANGED <<pc, input>>

\* table.loadFromCSVString(csvString, options): clear() is called once the
\* text is known to have rows
LoadTable(csvString, options) ==
    LET res == A1LoadFromCSVString(data, csvString, options)
    IN  /\ data' = res.data
        /\ last' = Call("loadFromCSVString", <<csvString, options>>, res)
        /\ IF Len(parseCsvString(csvString, options.separator)) = 0
           THEN output' = output
           ELSE Detach
        /\ UNCHANGED <<pc, input>>

NextAlias ==
    \/ GetAllData
    \/ GetRawData
    \/ \E cellRef \in AliasRefs, value \in Values : WriteHeld(cellRef, value)
    \/ \E cellRef \in AliasRefs : DeleteHeld(cellRef)
    \/ \E cellRef \in AliasRefs, value \in Values : SetItem(cellRef, value)
    \/ \E cellData \in AliasBatches : Set(cellData)
    \/ \E cellRef \in AliasRefs : RemoveItem(cellRef)
    \/ \E cellRef \in AliasRefs : GetItem(cellRef)
    \/ ClearTable
    \/ \E csvString \in AliasTexts, options \in FromOptionInputs :
           LoadTable(csvString, options)

SpecAlias == InitAlias /\ [][NextAlias]_vars

(***************************************************************************)
(* Claims about the objects handed out, under SpecAlias                    *)
(***************************************************************************)
\* C21: getAllData() returns a copy: no later write to or deletion from the
\* returned object changes what the table holds, and no later mutation of
\* the table changes the returned object.
C21_GetAllDataCopy ==
    [][/\ last'.op = "getAllData" => Held' = data /\ data' = data
       /\ (output.kind = "copy" /\ output'.kind = "copy" /\ last'.op # "getAllData") =>
              IF last'.op \in {"write", "delete"}
              THEN data' = data
              ELSE Held' = Held
      ]_vars

\* C21's case: the owner has written to the copy it holds, and the copy and
\* the table, which holds cells, now differ.
C21_Witness ==
    /\ output.kind = "copy" /\ last.op = "write"
    /\ data # <<>> /\ Held # data /\ ~ObjHas(data, last.arg[1])

\* C22: getRawData() exposes the live internal mapping: the object it returned
\* keeps reflecting the table's contents after any later setItem, set,
\* removeItem, clear and loadFromCSVString, and a write through it is visible
\* to getItem.
C22_GetRawDataLive ==
    [][output'.kind = "raw" =>
           /\ Held' = data'
           /\ last'.op = "write" => ObjGet(data', last'.arg[1]) = last'.arg[2]
           /\ (last'.op = "getItem" /\ last'.ok) => last'.ret = ObjGet(Held', last'.arg)
      ]_vars


(***************************************************************************)
(* Claims about size, null cells and history, under SpecViews              *)
(***************************************************************************)
\* C23: storing null or undefined at a reference is indistinguishable from
\* never setting it: the table where a reference not yet set was set to null
\* gives the same size(), isEmpty(), getCellReferences(), toArray(),
\* toRowBasedArray() and toCSVString() as the table before.
C23_NullIsAbsent ==
    [][(last'.op = "setItem" /\ last'.ok /\ last'.arg[2] \in {Null, Undefined}
           /\ ~ObjHas(data, last'.arg[1])) =>
           /\ A1Size(data') = A1Size(data)
           /\ A1IsEmpty(data') = A1IsEmpty(data)
           /\ A1GetCellReferences(data').ret = A1GetCellReferences(data).ret
           /\ A1ToArray(data', TRUE).ret = A1ToArray(data, TRUE).ret
           /\ A1ToRowBasedArray(data').ret = A1ToRowBasedArray(data).ret
           /\ A1ToCSVString(data', DefaultCSVOptions).ret
                  = A1ToCSVString(data, DefaultCSVOptions).ret
      ]_vars

ViewKeyOrder == <<RefA1, RefB2, RefC3, RefE1>>

\* The same mapping with its keys inserted in one fixed order.
Canonical(table) ==
    LET present(k) == ObjHas(table, k)
        keys == SelectSeq(ViewKeyOrder, present)
    IN  [i \in 1..Len(keys) |-> Entry(keys[i], ObjGet(table, keys[i]))]

\* C30: toCSVString(options) and toArray(flag) depend only on the table's
\* mapping of references to values, not on the history that produced it: two
\* tables with the same mapping, built by different sequences or orders of
\* set, setItem and removeItem, return the same results, and an export called
\* twice with no mutation between returns the same result and leaves the
\* table unchanged.
C30_HistoryIndependent ==
    /\ [](/\ last.op = "toCSVString" =>
                 last.ret = A1ToCSVString(Canonical(data), last.arg).ret
          /\ last.op = "toArray" =>
                 last.ret = A1ToArray(Canonical(data), last.arg).ret)
    /\ [][last'.op \in {"toCSVString", "toArray"} =>
              /\ data' = data
              /\ (last.op = last'.op /\ last.arg = last'.arg) => last'.ret = last.ret
         ]_vars

\* C30's case: toCSVString has written the table whose E1 was inserted before
\* its A1.
C30_Witness ==
    /\ last.op = "toCSVString" /\ last.arg = DefaultCSVOptions
    /\ ObjKeys(data) = <<RefE1, RefA1>> /\ NoNullStored(data)
    /\ last.ret = <<"1", ",", ",", ",", ",", "1">>


(***************************************************************************)
(* Claims about a failed import, under SpecImport                          *)
(***************************************************************************)
\* C28: no partial application on error: whenever loadFromCSVString raises
\* (startRow below 1, or startColumn ""), the table holds exactly the cells it
\* held before the call.
C28_FailedLoadKeepsTable ==
    (pc = "loaded" /\ ~output.ok) => output.data = input.prior


(***************************************************************************)
(* The table over references that spell one position in two ways           *)
(***************************************************************************)
RefA01 == <<"A", "0", "1">>

SpellingRefs == {RefA1, RefA01, RefB2}

SpellingValues == {IntNum(1), IntNum(2), Null}

NextSpellings ==
    \/ \E cellRef \in SpellingRefs, value \in SpellingValues : SetItem(cellRef, value)
    \/ \E cellRef \in SpellingRefs : RemoveItem(cellRef)
    \/ Clear
    \/ \E startFromColumnA \in BOOLEAN : ToArray(startFromColumnA)

SpecSpellings == InitViews /\ [][NextSpellings]_vars

\* The entries of a table that hold a value other than null.
NonNullEntries(table) ==
    LET nonNull(e) == e.v # Null /\ e.v # Undefined
    IN  SelectSeq(table, nonNull)

\* The number of entries of a grid other than null.
RECURSIVE NonNullInGrid(_)
NonNullInGrid(grid) ==
    IF grid = <<>> THEN 0
    ELSE LET nonNull(v) == v # Null
         IN  Len(SelectSeq(Head(grid), nonNull)) + NonNullInGrid(Tail(grid))

\* C29: after any sequence of public operations no two distinct keys of the
\* table decode to the same (row, column), so every stored non-null value
\* appears in toArray() at its own position and the number of occupied grid
\* entries is the number of keys holding a non-null value.
C29_OneKeyPerPosition ==
    /\ \A i, j \in 1..Len(data) :
           i # j => 
               LET a == parseCellReference(data[i].k)
                   b == parseCellReference(data[j].k)
               IN  <<a.row, a.column>> # <<b.row, b.column>>
    /\ (last.op = "toArray" /\ last.arg) =>
           LET minRow == Min({parseCellReference(data[i].k).row : i \in 1..Len(data)})
               held == NonNullEntries(data)
           IN  /\ \A i \in 1..Len(held) :
                      LET at == parseCellReference(held[i].k)
                      IN  last.ret[at.row - minRow + 1][at.column] = held[i].v
               /\ NonNullInGrid(last.ret) = Len(held)


(***************************************************************************)
(* parseCsvString, one step of its loops at a time                         *)
(***************************************************************************)
MaxScanLen == 4

ScanAlphabet == {"a", ",", QUOTE, LF, " "}

RECURSIVE ScanStringsOfLength(_)
ScanStringsOfLength(n) ==
    IF n = 0 THEN {<<>>}
    ELSE {Append(s, c) : s \in ScanStringsOfLength(n - 1), c \in ScanAlphabet}

ScanStrings == UNION {ScanStringsOfLength(n) : n \in 0..MaxScanLen}

NamedScanStrings ==
    { <<"x", ";", "1", CR, LF, CR, LF, ";", "y">>,
      <<"a", CR, LF, " ", CR, "b">>,
      <<QUOTE, "a", ";", QUOTE, QUOTE, "b", QUOTE, ";", "c">>,
      <<CR, LF, " ", LF>> }

ScanInputs ==
    {[csvString |-> s, separator |-> <<",">>] : s \in ScanStrings}
    \cup {[csvString |-> s, separator |-> <<";">>] : s \in NamedScanStrings}

InitScan ==
    /\ input \in ScanInputs
    /\ pc = "input"
    /\ data = [lines |-> <<>>, line |-> <<>>] @@ LineStart
    /\ output = <<>>
    /\ last = Idle

\* parseCsvString up to its loop: [] for a blank text, else the split.
Begin ==
    /\ pc = "input"
    /\ IF Trim(input.csvString) = <<>>
       THEN pc' = "returned" /\ data' = data
       ELSE /\ pc' = "lines"
            /\ data' = [data EXCEPT !.lines = SplitLines(input.csvString, 1, <<>>)]
    /\ last' = [op |-> "begin"]
    /\ UNCHANGED <<input, output>>

\* for (const line of lines): a blank line is passed over.
SkipLine ==
    /\ pc = "lines" /\ data.lines # <<>>
    /\ Trim(Head(data.lines)) = <<>>
    /\ data' = [data EXCEPT !.lines = Tail(@)]
    /\ last' = [op |-> "skipLine"]
    /\ UNCHANGED <<pc, input, output>>

\* for (const line of lines): parseCsvLine is entered with the line.
TakeLine ==
    /\ pc = "lines" /\ data.lines # <<>>
    /\ Trim(Head(data.lines)) # <<>>
    /\ data' = [lines |-> Tail(data.lines), line |-> Head(data.lines)] @@ LineStart
    /\ pc' = "scan"
    /\ last' = [op |-> "takeLine"]
    /\ UNCHANGED <<input, output>>

ScanStep ==
    /\ pc = "scan" /\ data.i <= Len(data.line)
    /\ data' = [lines |-> data.lines, line |-> data.line]
                   @@ parseCsvLineStep(data.line, input.separator,
                          [i |-> data.i, current |-> data.current,
                           inQuotes |-> data.inQuotes, result |-> data.result])
    /\ last' = [op |-> "scanStep"]
    /\ UNCHANGED <<pc, input, output>>

\* parseCsvLine returns and its row is pushed.
EndLine ==
    /\ pc = "scan" /\ data.i > Len(data.line)
    /\ output' = Append(output, parseCsvLineEnd(data))
    /\ pc' = "lines"
    /\ last' = [op |-> "endLine"]
    /\ UNCHANGED <<data, input>>

Return ==
    /\ pc = "lines" /\ data.lines = <<>>
    /\ pc' = "returned"
    /\ last' = [op |-> "return"]
    /\ UNCHANGED <<data, input, output>>

NextScan == Begin \/ SkipLine \/ TakeLine \/ ScanStep \/ EndLine \/ Return

SpecScan == InitScan /\ [][NextScan]_vars

\* The function runs to its end once called: a step that can be taken is taken.
SpecScanFair == SpecScan /\ WF_vars(NextScan)

\* The steps give what the function gives as a whole.
ScanAgrees ==
    pc = "returned" => output = parseCsvString(input.csvString, input.separator)

\* The separators of a line that the two-state machine reads in Unquoted.
RECURSIVE SeparatorsUnquoted(_, _, _, _)
SeparatorsUnquoted(line, separator, i, quoted) ==
    IF i > Len(line) THEN 0
    ELSE IF quoted
    THEN IF line[i] # QUOTE THEN SeparatorsUnquoted(line, separator, i + 1, TRUE)
         ELSE IF i + 1 <= Len(line) /\ line[i + 1] = QUOTE
         THEN SeparatorsUnquoted(line, separator, i + 2, TRUE)
         ELSE SeparatorsUnquoted(line, separator, i + 1, FALSE)
    ELSE IF line[i] = QUOTE THEN SeparatorsUnquoted(line, separator, i + 1, TRUE)
    ELSE IF <<line[i]>> = separator
    THEN 1 + SeparatorsUnquoted(line, separator, i + 1, FALSE)
    ELSE SeparatorsUnquoted(line, separator, i + 1, FALSE)

\* C25: parseCsvLine behaves as a machine of two states, Unquoted and Quoted.
\* In Unquoted the separator ends the current field and a quote, wherever it
\* stands, switches to Quoted without being added; in Quoted a quote followed
\* by a quote adds one literal quote and stays, a lone quote switches back to
\* Unquoted, and the separator is added as a character. The fields returned
\* are one more than the separators read in Unquoted.
C25_TwoStateMachine ==
    [][/\ last'.op = "scanStep" =>
              LET char == data.line[data.i]
                  doubled == data.i + 1 <= Len(data.line)
                                 /\ data.line[data.i + 1] = QUOTE
              IN  IF ~data.inQuotes
                  THEN IF <<char>> = input.separator
                       THEN /\ data'.result = Append(data.result, data.current)
                            /\ data'.current = <<>> /\ ~data'.inQuotes
                       ELSE IF char = QUOTE
                       THEN /\ data'.inQuotes /\ data'.current = data.current
                            /\ data'.result = data.result
                            /\ data'.i = data.i + 1
                       ELSE /\ ~data'.inQuotes /\ data'.result = data.result
                            /\ data'.current = Append(data.current, char)
                  ELSE IF char = QUOTE /\ doubled
                       THEN /\ data'.inQuotes /\ data'.result = data.result
                            /\ data'.current = Append(data.current, QUOTE)
                            /\ data'.i = data.i + 2
                       ELSE IF char = QUOTE
                       THEN /\ ~data'.inQuotes /\ data'.result = data.result
                            /\ data'.current = data.current
                       ELSE /\ data'.inQuotes /\ data'.result = data.result
                            /\ data'.current = Append(data.current, char)
       /\ last'.op = "endLine" =>
              Len(output'[Len(output')])
                  = 1 + SeparatorsUnquoted(data.line, input.separator, 1, FALSE)
      ]_vars

\* C25's case: in `""",` the first quote opened the field, the doubled quote
\* gave one quote and the separator was added as a character.
C25_Witness ==
    /\ pc = "scan" /\ data.line = <<QUOTE, QUOTE, QUOTE, ",">>
    /\ data.i = 5 /\ data.inQuotes
    /\ data.current = <<QUOTE, ",">> /\ data.result = <<>>

\* C26: the tokenizer is total: for every text, unbalanced quotes included,
\* parseCsvString comes to its end and returns rows; each scanning step
\* consumes at least one character; a field open at the end of a line, in
\* Quoted too, is closed and emitted; every tokenized line yields at least
\* one field.
C26_TokenizerTotal ==
    /\ <>(pc = "returned")
    /\ [][/\ last'.op = "scanStep" => data'.i > data.i /\ data'.i <= Len(data.line) + 1
          /\ last'.op = "endLine" =>
                 LET row == output'[Len(output')]
                 IN  /\ Len(output') = Len(output) + 1
                     /\ Len(row) >= 1
                     /\ row[Len(row)] = data.current
         ]_vars

\* C26's case: `"a,` has been tokenized to its end: the quote never closed
\* and the one field holds the separator.
C26_Witness ==
    /\ pc = "returned" /\ input.csvString = <<QUOTE, "a", ",">>
    /\ output = << <<<<"a", ",">>>> >>

\* The positions of the line feeds of a text, and the text around them.
LineFeeds(s) == {i \in 1..Len(s) : s[i] = LF}

\* The text of the piece that ends just before position e (a line feed or
\* the end of the text), without the CR of a CR LF break.
PieceBefore(s, e) ==
    LET b == Max({0} \cup {i \in LineFeeds(s) : i < e}) + 1
        f == IF e <= Len(s) /\ e - 1 >= b /\ s[e - 1] = CR THEN e - 2 ELSE e - 1
    IN  SubSeq(s, b, f)

IsBlank(s) == \A i \in 1..Len(s) : IsSpace(s[i])

\* The ends of the pieces that are not blank, ascending.
RECURSIVE Ascending(_)
Ascending(S) ==
    IF S = {} THEN <<>> ELSE <<Min(S)>> \o Ascending(S \ {Min(S)})

NonBlankEnds(s) ==
    Ascending({e \in LineFeeds(s) \cup {Len(s) + 1} : ~IsBlank(PieceBefore(s, e))})

====
